---- MODULE Spec2Model ----
(***************************************************************************)
(* Model of main_v2.py: the Streamlit dashboard "Global Cybersecurity      *)
(* Threats Explorer".  One script run (main) loads the dataset through the *)
(* TTL cache, filters it with the sidebar widgets and computes the four    *)
(* summary tables handed to the charts.                                    *)
(*                                                                         *)
(* A DataFrame is a sequence of rows; a row is a record with one field per *)
(* column the script reads plus "index", the pandas index label the row    *)
(* keeps through boolean-mask selection.  Strings are compared through     *)
(* Rank (their lexicographic position), numbers are integers, and a mean   *)
(* is a reduced fraction [num, den].                                       *)
(***************************************************************************)
EXTENDS Integers, Sequences, FiniteSets, TLC

\* ------------------------------------------------------------------ bounds
\* Longest sequence of free rows appended to a dataset.
MaxRows == 3
\* Script runs (render passes) of one session.
MaxRuns == 3
\* Sessions calling load_data at the same time.
MaxSessions == 2
\* Seconds that pass while they do.
MaxTicks == 2

\* --------------------------------------------------------------- constants
CACHE_TTL == 3600
\* n of .nlargest(n)
TopN == 10

\* ------------------------------------------------------------ column values
\* Every string of the model, in lexicographic (code point) order.
Alphabet ==
  << "Banking", "Brazil", "China", "DDoS", "Firewall", "IT", "India",
     "Phishing", "Retail", "USA", "Unpatched Software", "VPN",
     "Weak Passwords" >>

Rank(s) == CHOOSE i \in 1..Len(Alphabet) : Alphabet[i] = s

\* Column names of the spreadsheet that the script reads.
YEAR     == "Year"
COUNTRY  == "Country"
ATTACK   == "Attack Type"
INDUSTRY == "Target Industry"
LOSS     == "Financial Loss (in Million $)"
VULN     == "Security Vulnerability Type"
DEFENSE  == "Defense Mechanism Used"
RESTIME  == "Incident Resolution Time (in Hours)"
LABEL    == "Label"
INDEX    == "index"

\* One spreadsheet row, before pandas gives it an index label.
RawRow(y, c, a, ind, l, v, d, t) ==
  (YEAR :> y) @@ (COUNTRY :> c) @@ (ATTACK :> a) @@ (INDUSTRY :> ind) @@
  (LOSS :> l) @@ (VULN :> v) @@ (DEFENSE :> d) @@ (RESTIME :> t)

\* pd.read_excel: the rows in sheet order under a RangeIndex 0..n-1.
ReadExcel(rows) == [i \in 1..Len(rows) |-> (INDEX :> (i - 1)) @@ rows[i]]

Range(f) == {f[i] : i \in DOMAIN f}

\* ----------------------------------------------------------------- numbers
RECURSIVE GCD(_, _)
GCD(a, b) == IF b = 0 THEN a ELSE GCD(b, a % b)

\* A float NaN: the value of a cell no row fills.
NaN == [num |-> 0, den |-> 0]

\* The arithmetic mean of n >= 1 numbers whose sum is s, as a reduced fraction.
Mean(s, n) == LET g == GCD(s, n) IN [num |-> s \div g, den |-> n \div g]

MeanGE(a, b) == a.num * b.den >= b.num * a.den

RECURSIVE SumCol(_, _)
SumCol(frame, col) ==
  IF frame = <<>> THEN 0 ELSE Head(frame)[col] + SumCol(Tail(frame), col)

\* ----------------------------------------------------- selection (line 65)
\* (mutant) inclusive="neither"
BetweenExclusive(x, left, right) == left < x /\ x < right

\* Series.between(left, right): inclusive="both" is the default.
Between(x, left, right) == left <= x /\ x <= right

\* (mutant) an empty selection read as "no filter"
IsInOrAll(x, values) == values = {} \/ x \in values

\* Series.isin(values)
IsIn(x, values) == x \in values

\* df[mask]: the rows whose mask entry is True, labels and order kept.
RECURSIVE BoolIndex(_, _, _)
BoolIndex(df, mask, i) ==
  IF i > Len(df) THEN <<>>
  ELSE (IF mask[i] THEN <<df[i]>> ELSE <<>>) \o BoolIndex(df, mask, i + 1)

\* df[df.Year.between(*year_range) & df.Country.isin(countries)]
FilterRows(df, year_range, cs) ==
  BoolIndex(df,
            [i \in 1..Len(df) |->
               Between(df[i][YEAR], year_range[1], year_range[2])
               /\ IsIn(df[i][COUNTRY], cs)],
            1)

\* ------------------------------------------------------ widgets (53-63)
YearMin(df) == CHOOSE y \in {r[YEAR] : r \in Range(df)} :
                 \A r \in Range(df) : y <= r[YEAR]
YearMax(df) == CHOOSE y \in {r[YEAR] : r \in Range(df)} :
                 \A r \in Range(df) : y >= r[YEAR]

\* The range slider's values: a pair lo <= hi within [min_value, max_value].
SliderValues(df) ==
  {p \in (YearMin(df)..YearMax(df)) \X (YearMin(df)..YearMax(df)) : p[1] <= p[2]}

\* df.Country.unique(): the multiselect's options.
CountryOptions(df) == {r[COUNTRY] : r \in Range(df)}

Count(df, c) == Cardinality({i \in 1..Len(df) : df[i][COUNTRY] = c})

\* df.Country.mode()[0]: the most frequent value, the smallest of several.
CountryMode(df) ==
  CHOOSE c \in CountryOptions(df) :
    /\ \A o \in CountryOptions(df) : Count(df, c) >= Count(df, o)
    /\ \A o \in CountryOptions(df) :
         Count(df, o) = Count(df, c) => Rank(c) <= Rank(o)

\* ------------------------------------------------------- groupby (71-135)
\* The group key of a row: its values in the grouping columns.
KeyOf(r, by) == [i \in 1..Len(by) |-> r[by[i]]]

\* Keys compare column by column, strings by code point.
RECURSIVE KeyLess(_, _, _)
KeyLess(a, b, i) ==
  /\ i <= Len(a)
  /\ \/ Rank(a[i]) < Rank(b[i])
     \/ a[i] = b[i] /\ KeyLess(a, b, i + 1)

\* groupby(..., sort=True): the distinct keys in ascending order.
RECURSIVE SortedKeys(_)
SortedKeys(S) ==
  IF S = {} THEN <<>>
  ELSE LET k == CHOOSE x \in S : \A y \in S \ {x} : KeyLess(x, y, 1)
       IN  <<k>> \o SortedKeys(S \ {k})

GroupKeys(frame, by) == SortedKeys({KeyOf(r, by) : r \in Range(frame)})

GroupRows(frame, by, k) == SelectSeq(frame, LAMBDA r : KeyOf(r, by) = k)

\* (mutant) .first() in place of .sum()
GroupFirst(frame, by, col) ==
  LET ks == SortedKeys({KeyOf(r, by) : r \in Range(frame)})
  IN  [i \in 1..Len(ks) |->
         [key |-> ks[i],
          value |-> Head(SelectSeq(frame, LAMBDA r : KeyOf(r, by) = ks[i]))[col]]]

\* groupby(by)[col].sum(): a Series of one sum per key, in key order.
GroupSum(frame, by, col) ==
  LET ks == GroupKeys(frame, by)
  IN  [i \in 1..Len(ks) |->
         [key |-> ks[i], value |-> SumCol(GroupRows(frame, by, ks[i]), col)]]

\* groupby(by)[col].mean(): a Series of one mean per key, in key order.
GroupMean(frame, by, col) ==
  LET ks == GroupKeys(frame, by)
  IN  [i \in 1..Len(ks) |->
         LET g == GroupRows(frame, by, ks[i])
         IN  [key |-> ks[i], value |-> Mean(SumCol(g, col), Len(g))]]

\* The sort keys of a Series of sums, and of a Series of means.
SumKeys(s)  == [i \in DOMAIN s |-> [num |-> s[i].value, den |-> 1]]
MeanKeys(s) == [i \in DOMAIN s |-> s[i].value]

\* Series.sort_values(ascending=False) with the default kind="quicksort",
\* which is not stable: every descending arrangement of the entries is an
\* outcome, whatever order entries of equal value come in.  w holds the
\* entries' values as fractions.
RECURSIVE DescOrders(_, _, _)
DescOrders(s, w, I) ==
  IF I = {} THEN {<<>>}
  ELSE UNION { {<<s[i]>> \o t : t \in DescOrders(s, w, I \ {i})} :
               i \in {m \in I : \A j \in I : MeanGE(w[m], w[j])} }

\* (mutant) ascending=True
SortValuesAsc(s, w) ==
  LET d == CHOOSE t \in DescOrders(s, w, DOMAIN s) : TRUE
  IN  {[i \in 1..Len(d) |-> d[Len(d) + 1 - i]]}

SortValuesDesc(s, w) == DescOrders(s, w, DOMAIN s)

\* argsort(kind="mergesort") of the negated values: descending, entries of
\* equal value in their original order.
RECURSIVE StableDesc(_, _, _)
StableDesc(s, w, I) ==
  IF I = {} THEN <<>>
  ELSE LET i == CHOOSE m \in I :
                  /\ \A j \in I : MeanGE(w[m], w[j])
                  /\ \A j \in I : MeanGE(w[j], w[m]) => m <= j
       IN  <<s[i]>> \o StableDesc(s, w, I \ {i})

HeadN(s, n) == SubSeq(s, 1, IF n < Len(s) THEN n ELSE Len(s))

\* (mutant) .head(n) in place of .nlargest(n)
HeadOnly(s, n) == {HeadN(s, n)}

\* Series.nlargest(n), keep="first": when n >= len it is
\* sort_values(ascending=False).head(n); otherwise the n largest by a stable
\* sort, so the first of several equal values are the ones kept.
NLargest(s, n) ==
  IF n >= Len(s) THEN {HeadN(t, n) : t \in SortValuesDesc(s, MeanKeys(s))}
  ELSE {HeadN(StableDesc(s, MeanKeys(s), DOMAIN s), n)}

\* Series.reset_index(): a frame with the key columns, the value column and
\* a fresh RangeIndex.
ResetIndex(s, by, col) ==
  [i \in 1..Len(s) |->
     [c \in {INDEX, col} \cup Range(by) |->
        IF c = INDEX THEN i - 1
        ELSE IF c = col THEN s[i].value
        ELSE s[i].key[CHOOSE j \in 1..Len(by) : by[j] = c]]]

\* (mutant) pivot_table(..., fill_value=0)
PivotFillZero(rt, index, columns, values) ==
  LET rows == SortedKeys({<<r[index]>> : r \in Range(rt)})
      cols == SortedKeys({<<r[columns]>> : r \in Range(rt)})
  IN  [index   |-> [i \in 1..Len(rows) |-> rows[i][1]],
       columns |-> [j \in 1..Len(cols) |-> cols[j][1]],
       data    |-> [i \in 1..Len(rows) |-> [j \in 1..Len(cols) |->
                     IF \E r \in Range(rt) :
                          r[index] = rows[i][1] /\ r[columns] = cols[j][1]
                     THEN (CHOOSE r \in Range(rt) :
                             r[index] = rows[i][1] /\ r[columns] = cols[j][1])[values]
                     ELSE [num |-> 0, den |-> 1]]]]

\* DataFrame.pivot(index, columns, values): one row per distinct index
\* value, one column per distinct columns value, both ascending; a cell
\* without a row of rt is NaN.
Pivot(rt, index, columns, values) ==
  LET rows == GroupKeys(rt, <<index>>)
      cols == GroupKeys(rt, <<columns>>)
  IN  [index   |-> [i \in 1..Len(rows) |-> rows[i][1]],
       columns |-> [j \in 1..Len(cols) |-> cols[j][1]],
       data    |-> [i \in 1..Len(rows) |-> [j \in 1..Len(cols) |->
                     IF \E r \in Range(rt) :
                          r[index] = rows[i][1] /\ r[columns] = cols[j][1]
                     THEN (CHOOSE r \in Range(rt) :
                             r[index] = rows[i][1] /\ r[columns] = cols[j][1])[values]
                     ELSE NaN]]]

\* ------------------------------------------- the four summaries (70-141)
\* plot_loss_by_country: the frames `loss` can be.
LossByCountry(subset) ==
  {ResetIndex(t, <<COUNTRY>>, LOSS) :
     t \in LET g == GroupSum(subset, <<COUNTRY>>, LOSS)
           IN  SortValuesDesc(g, SumKeys(g))}

\* plot_avg_loss_by_attack: the frame `avg_atk`.
AvgLossByAttack(subset) ==
  ResetIndex(GroupMean(subset, <<ATTACK>>, LOSS), <<ATTACK>>, LOSS)

\* combo["Label"] = combo.Country + " - " + combo["Target Industry"]
\* (the separator of the source is an en dash between two spaces)
WithLabel(combo) ==
  [i \in 1..Len(combo) |->
     (LABEL :> combo[i][COUNTRY] \o " - " \o combo[i][INDUSTRY]) @@ combo[i]]

\* plot_top_country_industry: the frames `combo` can be.
TopCountryIndustry(subset) ==
  {WithLabel(ResetIndex(t, <<COUNTRY, INDUSTRY>>, LOSS)) :
     t \in NLargest(GroupMean(subset, <<COUNTRY, INDUSTRY>>, LOSS), TopN)}

\* plot_resolution_heatmap: the matrix `heat`.
ResolutionHeatmap(subset) ==
  Pivot(ResetIndex(GroupMean(subset, <<VULN, DEFENSE>>, RESTIME),
                   <<VULN, DEFENSE>>, RESTIME),
        VULN, DEFENSE, RESTIME)

\* ------------------------------------------------------------------ state
VARIABLES
  remote,      \* the sheet rows served at DATA_URL (they do not change)
  clock,       \* seconds since the process started
  cache,       \* st.cache_data's entry for load_data(DATA_URL)
  requests,    \* requests.get calls issued so far
  run,         \* which script run of the session this is (1 = the first)
  pc,          \* where main() is in the current run
  df,          \* main's df
  year_range,  \* the slider's value
  countries,   \* the multiselect's value
  subset,      \* main's subset
  loss,        \* plot_loss_by_country's frame
  avg_atk,     \* plot_avg_loss_by_attack's frame
  combo,       \* plot_top_country_industry's frame
  heat,        \* plot_resolution_heatmap's matrix
  stages,      \* the functions main() has entered in the current run
  shown,       \* the subset the previous run charted
  calls,       \* one record per load_data call of the session
  rpc,         \* concurrent sessions: where each is in load_data
  rgot,        \* concurrent sessions: what load_data returned to each
  writes       \* concurrent sessions: the cache writes, in order

vars == << remote, clock, cache, requests, run, pc, df, year_range, countries,
           subset, loss, avg_atk, combo, heat, stages, shown, calls, rpc, rgot,
           writes >>

render_vars == << run, pc, df, year_range, countries, subset, loss, avg_atk,
                  combo, heat, stages, shown, calls >>
race_vars   == << rpc, rgot, writes >>

\* ------------------------------------------------- load_data (lines 30-37)
NoEntry == [present |-> FALSE, value |-> <<>>, stored_at |-> 0]

\* (mutant) an entry of exactly the ttl's age still answers
CacheFreshInclusive(entry, now) ==
  entry.present /\ now <= entry.stored_at + CACHE_TTL

\* An entry answers a lookup while it is younger than the ttl.
CacheFresh(entry, now) == entry.present /\ now < entry.stored_at + CACHE_TTL

\* (mutant) the table is added to the entry's table
CacheStoreExtend(value, now) ==
  [present |-> TRUE, value |-> cache.value \o value, stored_at |-> now]

\* The entry written after load_data returned value at time now.
CacheStore(value, now) == [present |-> TRUE, value |-> value, stored_at |-> now]

\* What the server can answer to requests.get(url).
Responses == {"200 xlsx", "200 not xlsx", "404", "connection error"}

\* (mutant) without resp.raise_for_status() and with the parser's error
\* swallowed: a table without rows
LoadDataBodyNoRaise(sheet, resp) ==
  IF resp = "200 xlsx" THEN [ok |-> TRUE, table |-> ReadExcel(sheet)]
  ELSE IF resp = "connection error" THEN [ok |-> FALSE, table |-> <<>>]
  ELSE [ok |-> TRUE, table |-> <<>>]

\* The body of load_data on one response: requests.get raises on a
\* connection error, raise_for_status on a 4xx/5xx status, read_excel on a
\* body that is no spreadsheet; otherwise the parsed table is returned.
LoadDataBody(sheet, resp) ==
  IF resp = "200 xlsx" THEN [ok |-> TRUE, table |-> ReadExcel(sheet)]
  ELSE [ok |-> FALSE, table |-> <<>>]

\* Seconds a fetch can take, and seconds between two script runs.
FetchTimes == {0, 1}
Delays     == {1, CACHE_TTL - 1, CACHE_TTL}

EmptyHeat == [index |-> <<>>, columns |-> <<>>, data |-> <<>>]

\* ------------------------------------------------------ main (154-176)
\* df = load_data(DATA_URL): a fresh entry is returned without a request;
\* otherwise one request is issued, and its table is stored and returned,
\* or its exception leaves main() with nothing stored.
LoadData ==
  /\ pc = "load"
  /\ stages' = stages \cup {"load_data"}
  /\ IF CacheFresh(cache, clock)
     THEN /\ df' = cache.value
          /\ pc' = "filter"
          /\ calls' = Append(calls, [at |-> clock, hit |-> TRUE, ok |-> TRUE,
                                     reqs |-> 0, resp |-> "none",
                                     done_at |-> clock])
          /\ UNCHANGED << cache, clock, requests >>
     ELSE \E resp \in Responses, d \in FetchTimes :
            LET res == LoadDataBody(remote, resp) IN
            /\ clock' = clock + d
            /\ requests' = requests + 1
            /\ calls' = Append(calls, [at |-> clock, hit |-> FALSE, ok |-> res.ok,
                                       reqs |-> 1, resp |-> resp,
                                       done_at |-> clock + d])
            /\ IF res.ok
               THEN /\ cache' = CacheStore(res.table, clock + d)
                    /\ df' = res.table
                    /\ pc' = "filter"
               ELSE /\ cache' = NoEntry
                    /\ df' = <<>>
                    /\ pc' = "raised"
  /\ UNCHANGED << remote, run, year_range, countries, subset, loss, avg_atk,
                  combo, heat, shown, race_vars >>

\* (mutant) the previous run's subset is narrowed instead of df
SidebarFiltersIncremental ==
  /\ pc = "filter"
  /\ stages' = stages \cup {"sidebar_filters"}
  /\ IF df = <<>>
     THEN /\ pc' = "raised"
          /\ UNCHANGED << year_range, countries, subset >>
     ELSE \E yr \in SliderValues(df), cs \in SUBSET CountryOptions(df) :
            /\ year_range = <<>> =>
                 yr = <<YearMin(df), YearMax(df)>> /\ cs = {CountryMode(df)}
            /\ year_range' = yr
            /\ countries' = cs
            /\ subset' = FilterRows(IF year_range = <<>> THEN df ELSE shown, yr, cs)
            /\ pc' = "tab0"
  /\ UNCHANGED << remote, clock, cache, requests, run, df, loss, avg_atk, combo,
                  heat, shown, calls, race_vars >>

\* subset = sidebar_filters(df).  The slider's bounds are int(df.Year.min())
\* and int(df.Year.max()), which raise on a table without rows (int(nan));
\* widgets drawn for the first time have their defaults, afterwards whatever
\* the user has set them to.
SidebarFilters ==
  /\ pc = "filter"
  /\ stages' = stages \cup {"sidebar_filters"}
  /\ IF df = <<>>
     THEN /\ pc' = "raised"
          /\ UNCHANGED << year_range, countries, subset >>
     ELSE \E yr \in SliderValues(df), cs \in SUBSET CountryOptions(df) :
            /\ year_range = <<>> =>
                 yr = <<YearMin(df), YearMax(df)>> /\ cs = {CountryMode(df)}
            /\ year_range' = yr
            /\ countries' = cs
            /\ subset' = FilterRows(df, yr, cs)
            /\ pc' = "tab0"
  /\ UNCHANGED << remote, clock, cache, requests, run, df, loss, avg_atk, combo,
                  heat, shown, calls, race_vars >>

PlotLossByCountry ==
  /\ pc = "tab0"
  /\ stages' = stages \cup {"plot_loss_by_country"}
  /\ loss' \in LossByCountry(subset)
  /\ pc' = "tab1"
  /\ UNCHANGED << remote, clock, cache, requests, run, df, year_range, countries,
                  subset, avg_atk, combo, heat, shown, calls, race_vars >>

PlotAvgLossByAttack ==
  /\ pc = "tab1"
  /\ stages' = stages \cup {"plot_avg_loss_by_attack"}
  /\ avg_atk' = AvgLossByAttack(subset)
  /\ pc' = "tab2"
  /\ UNCHANGED << remote, clock, cache, requests, run, df, year_range, countries,
                  subset, loss, combo, heat, shown, calls, race_vars >>

PlotTopCountryIndustry ==
  /\ pc = "tab2"
  /\ stages' = stages \cup {"plot_top_country_industry"}
  /\ combo' \in TopCountryIndustry(subset)
  /\ pc' = "tab3"
  /\ UNCHANGED << remote, clock, cache, requests, run, df, year_range, countries,
                  subset, loss, avg_atk, heat, shown, calls, race_vars >>

PlotResolutionHeatmap ==
  /\ pc = "tab3"
  /\ stages' = stages \cup {"plot_resolution_heatmap"}
  /\ heat' = ResolutionHeatmap(subset)
  /\ pc' = "done"
  /\ UNCHANGED << remote, clock, cache, requests, run, df, year_range, countries,
                  subset, loss, avg_atk, combo, shown, calls, race_vars >>

\* A widget change (or a reload after an exception) reruns the script from
\* the top, some time later; the run's locals start afresh.
Rerun ==
  /\ pc \in {"done", "raised"}
  /\ run < MaxRuns
  /\ \E dt \in Delays : clock' = clock + dt
  /\ run' = run + 1
  /\ pc' = "load"
  /\ shown' = subset
  /\ stages' = {}
  /\ df' = <<>>
  /\ subset' = <<>>
  /\ loss' = <<>>
  /\ avg_atk' = <<>>
  /\ combo' = <<>>
  /\ heat' = EmptyHeat
  /\ UNCHANGED << remote, cache, requests, year_range, countries, calls, race_vars >>

\* ------------------------------------- load_data called by several sessions
\* Each session runs its script in a thread of its own; the lookup, the
\* fetch and the write of the entry are separate steps of load_data's cache
\* wrapper, and another session may run between them.
Sessions == 1..MaxSessions

\* The lookup: a fresh entry is returned, otherwise the request goes out.
RLookup(s) ==
  /\ rpc[s] = "idle"
  /\ IF CacheFresh(cache, clock)
     THEN /\ rpc' = [rpc EXCEPT ![s] = "returned"]
          /\ rgot' = [rgot EXCEPT ![s] = cache.value]
          /\ UNCHANGED requests
     ELSE /\ rpc' = [rpc EXCEPT ![s] = "fetching"]
          /\ requests' = requests + 1
          /\ UNCHANGED rgot
  /\ UNCHANGED << remote, clock, cache, writes, render_vars >>

\* The response arrives and the body of load_data finishes or raises.
RRespond(s) ==
  /\ rpc[s] = "fetching"
  /\ \E resp \in Responses :
       LET res == LoadDataBody(remote, resp) IN
       /\ rpc' = [rpc EXCEPT ![s] = IF res.ok THEN "storing" ELSE "raised"]
       /\ rgot' = [rgot EXCEPT ![s] = res.table]
  /\ UNCHANGED << remote, clock, cache, requests, writes, render_vars >>

\* The computed table is written to the cache and returned.
RStore(s) ==
  /\ rpc[s] = "storing"
  /\ cache' = CacheStore(rgot[s], clock)
  /\ writes' = Append(writes, [by |-> s, value |-> rgot[s], at |-> clock])
  /\ rpc' = [rpc EXCEPT ![s] = "returned"]
  /\ UNCHANGED << remote, clock, requests, rgot, render_vars >>

Tick ==
  /\ clock < MaxTicks
  /\ clock' = clock + 1
  /\ UNCHANGED << remote, cache, requests, writes, race_vars, render_vars >>

\* ---------------------------------------------------------------- datasets
RECURSIVE SeqsUpTo(_, _)
SeqsUpTo(S, n) ==
  IF n = 0 THEN {<<>>}
  ELSE LET shorter == SeqsUpTo(S, n - 1)
       IN  shorter \cup {Append(q, x) : q \in {t \in shorter : Len(t) = n - 1}, x \in S}

\* The example of the specification, section 8.
ExampleSheet ==
  << RawRow(2020, "USA",   "DDoS",     "IT",      5,  "Weak Passwords", "VPN",      2),
     RawRow(2020, "USA",   "Phishing", "Banking", 3,  "Weak Passwords", "Firewall", 4),
     RawRow(2021, "India", "DDoS",     "Retail",  10, "Unpatched Software", "VPN",  6) >>

\* Rows that differ in the columns the filter and Loss by Country read.
CountryRows ==
  {RawRow(y, c, "DDoS", "IT", l, "Weak Passwords", "VPN", 2) :
     y \in {2020, 2022}, c \in {"India", "USA"}, l \in {3, 6}}

\* Rows that differ in the columns the heatmap reads.
HeatRows ==
  {RawRow(yt[1], "India", "DDoS", "IT", 3, v, d, yt[2]) :
     v \in {"Unpatched Software", "Weak Passwords"}, d \in {"Firewall", "VPN"},
     yt \in {<<2020, 2>>, <<2021, 4>>}}

\* Rows that differ in the columns Top Country-Industry reads.
TopRows ==
  {RawRow(yl[1], "USA", "DDoS", ind, yl[2], "Weak Passwords", "VPN", 2) :
     ind \in {"IT", "Retail"}, yl \in {<<2020, 1>>, <<2022, 40>>}}

\* Twelve incidents, one per (Country, Target Industry) pair, in sheet order
\* USA, India, China, Brazil.  Two pairs share the tenth largest loss (3).
WideSheet ==
  << RawRow(2021, "USA",    "DDoS",     "Banking", 12, "Weak Passwords", "VPN", 2),
     RawRow(2021, "USA",    "Phishing", "IT",      7,  "Weak Passwords", "VPN", 2),
     RawRow(2021, "USA",    "DDoS",     "Retail",  3,  "Weak Passwords", "VPN", 2),
     RawRow(2021, "India",  "DDoS",     "Banking", 9,  "Weak Passwords", "VPN", 2),
     RawRow(2020, "India",  "Phishing", "IT",      4,  "Weak Passwords", "VPN", 2),
     RawRow(2021, "India",  "DDoS",     "Retail",  11, "Weak Passwords", "VPN", 2),
     RawRow(2021, "China",  "DDoS",     "Banking", 3,  "Weak Passwords", "VPN", 2),
     RawRow(2021, "China",  "Phishing", "IT",      8,  "Weak Passwords", "VPN", 2),
     RawRow(2022, "China",  "DDoS",     "Retail",  2,  "Weak Passwords", "VPN", 2),
     RawRow(2021, "Brazil", "DDoS",     "Banking", 6,  "Weak Passwords", "VPN", 2),
     RawRow(2020, "Brazil", "Phishing", "IT",      10, "Weak Passwords", "VPN", 2),
     RawRow(2021, "Brazil", "DDoS",     "Retail",  5,  "Weak Passwords", "VPN", 2) >>

CountrySheets == SeqsUpTo(CountryRows, MaxRows) \cup {ExampleSheet}
HeatSheets    == SeqsUpTo(HeatRows, MaxRows)
TopSheets     ==
  {base \o x : base \in {<<>>, WideSheet}, x \in SeqsUpTo(TopRows, MaxRows)}
SessionSheets == {<<>>, ExampleSheet}

\* ------------------------------------------------------------------- Init
\* A process that has just started: nothing cached, the first run of the
\* first session about to call load_data.
InitOn(sheets) ==
  /\ remote \in sheets
  /\ clock = 0
  /\ cache = NoEntry
  /\ requests = 0
  /\ run = 1
  /\ pc = "load"
  /\ df = <<>>
  /\ year_range = <<>>
  /\ countries = {}
  /\ subset = <<>>
  /\ loss = <<>>
  /\ avg_atk = <<>>
  /\ combo = <<>>
  /\ heat = EmptyHeat
  /\ stages = {}
  /\ shown = <<>>
  /\ calls = <<>>

Init ==
  /\ InitOn(SessionSheets)
  /\ rpc = <<>>
  /\ rgot = <<>>
  /\ writes = <<>>

\* The second run of a session whose first run loaded the sheet and drew
\* the widgets: load_data has answered from the cache and sidebar_filters is
\* next, with the widgets at whatever the user sets.
InitLoaded(sheets) ==
  /\ remote \in sheets
  /\ remote # <<>>
  /\ clock = 1
  /\ cache = CacheStore(ReadExcel(remote), 0)
  /\ requests = 1
  /\ run = 2
  /\ pc = "filter"
  /\ df = ReadExcel(remote)
  /\ year_range = <<YearMin(df), YearMax(df)>>
  /\ countries = {CountryMode(df)}
  /\ subset = <<>>
  /\ loss = <<>>
  /\ avg_atk = <<>>
  /\ combo = <<>>
  /\ heat = EmptyHeat
  /\ stages = {"load_data"}
  /\ shown = FilterRows(df, year_range, countries)
  /\ calls = << [at |-> 0, hit |-> FALSE, ok |-> TRUE, reqs |-> 1,
                 resp |-> "200 xlsx", done_at |-> 0],
                [at |-> 1, hit |-> TRUE, ok |-> TRUE, reqs |-> 0,
                 resp |-> "none", done_at |-> 1] >>
  /\ rpc = <<>>
  /\ rgot = <<>>
  /\ writes = <<>>

Render ==
  \/ SidebarFilters
  \/ PlotLossByCountry
  \/ PlotAvgLossByAttack
  \/ PlotTopCountryIndustry
  \/ PlotResolutionHeatmap

Next ==
  \/ LoadData
  \/ Render
  \/ Rerun

\* One session running the script again and again.
Spec == Init /\ [][Next]_vars

\* One render pass over every dataset of a family.
SpecCountry == InitLoaded(CountrySheets) /\ [][Render]_vars
SpecHeat    == InitLoaded(HeatSheets) /\ [][Render]_vars
SpecTop     == InitLoaded(TopSheets) /\ [][Render]_vars

\* Several sessions start together on a cold cache.
InitRace ==
  /\ InitOn({ExampleSheet, WideSheet})
  /\ rpc = [s \in Sessions |-> "idle"]
  /\ rgot = [s \in Sessions |-> <<>>]
  /\ writes = <<>>

NextRace ==
  \/ \E s \in Sessions : RLookup(s)
  \/ \E s \in Sessions : RRespond(s)
  \/ \E s \in Sessions : RStore(s)
  \/ Tick

SpecRace == InitRace /\ [][NextRace]_vars

\* =================================================================== claims
AfterFilter == {"tab0", "tab1", "tab2", "tab3", "done"}

\* The row passes both predicates of the current widget values.
Selected(r) ==
  /\ year_range[1] <= r[YEAR] /\ r[YEAR] <= year_range[2]
  /\ r[COUNTRY] \in countries

\* The sum of a column over the rows of a frame with the given positions.
RECURSIVE SumAt(_, _, _)
SumAt(frame, col, I) ==
  IF I = {} THEN 0
  ELSE LET i == CHOOSE x \in I : TRUE
       IN  frame[i][col] + SumAt(frame, col, I \ {i})

\* ---------------------------------------------------------------------- C1
\* C1: what sidebar_filters returns is exactly the rows of df whose Year
\* lies in [minYear, maxYear], bounds included, and whose Country is
\* selected: every returned row is such a row of df, every such row of df is
\* returned, the result is no longer than df, and the rows come in df's
\* order (ascending index labels, so none twice).
C1_FilterExact ==
  pc \in AfterFilter =>
    /\ \A i \in DOMAIN subset : subset[i] \in Range(df) /\ Selected(subset[i])
    /\ \A i \in DOMAIN df : Selected(df[i]) => \E j \in DOMAIN subset : subset[j] = df[i]
    /\ Len(subset) <= Len(df)
    /\ \A i, j \in DOMAIN subset : i < j => subset[i][INDEX] < subset[j][INDEX]

\* A three-row table of which one row is kept (its Year on both bounds), one
\* fails only the year range and one fails only the country selection.
C1_Witness ==
  /\ pc = "tab0"
  /\ year_range[1] = year_range[2]
  /\ Len(subset) = 1
  /\ \E r \in Range(df) : r[COUNTRY] \in countries /\ r[YEAR] > year_range[2]
  /\ \E r \in Range(df) : r[COUNTRY] \notin countries /\ r[YEAR] = year_range[1]

\* ---------------------------------------------------------------------- C3
\* The positions of subset's rows of one country.
RowsOf(c) == {i \in DOMAIN subset : subset[i][COUNTRY] = c}

\* C3: once plot_loss_by_country has run, loss has one row per distinct
\* Country of subset and none for another country, each row's value is the
\* sum of Financial Loss over that country's rows, the values add up to the
\* sum of Financial Loss over subset, and the example of the specification
\* (years [2020, 2020], countries {USA} on its three rows) gives [(USA, 8)].
C3_LossByCountrySums ==
  pc \in {"tab1", "tab2", "tab3", "done"} =>
    /\ {loss[i][COUNTRY] : i \in DOMAIN loss} = {r[COUNTRY] : r \in Range(subset)}
    /\ Len(loss) = Cardinality({r[COUNTRY] : r \in Range(subset)})
    /\ \A i \in DOMAIN loss :
         loss[i][LOSS] = SumAt(subset, LOSS, RowsOf(loss[i][COUNTRY]))
    /\ SumAt(loss, LOSS, DOMAIN loss) = SumAt(subset, LOSS, DOMAIN subset)
    /\ (remote = ExampleSheet /\ year_range = <<2020, 2020>> /\ countries = {"USA"}) =>
         /\ Len(subset) = 2
         /\ Len(loss) = 1 /\ loss[1][COUNTRY] = "USA" /\ loss[1][LOSS] = 8

\* The example of the specification has been charted.
C3_Witness ==
  /\ pc = "tab1"
  /\ remote = ExampleSheet
  /\ year_range = <<2020, 2020>>
  /\ countries = {"USA"}
  /\ Len(df) = 3
  /\ loss = << (INDEX :> 0) @@ (COUNTRY :> "USA") @@ (LOSS :> 8) >>

\* ---------------------------------------------------------------------- C9
\* The position in subset at which a country's group is first met.
FirstSeen(c) == CHOOSE i \in RowsOf(c) : \A j \in RowsOf(c) : i <= j

\* C9 as stated: the rows of loss are in non-increasing order of summed loss
\* and countries of equal sums come in the order their groups are first met
\* in subset.
C9_TiesInDiscoveryOrder ==
  pc \in {"tab1", "tab2", "tab3", "done"} =>
    \A i, j \in DOMAIN loss : i < j =>
      /\ loss[i][LOSS] >= loss[j][LOSS]
      /\ loss[i][LOSS] = loss[j][LOSS] =>
           FirstSeen(loss[i][COUNTRY]) < FirstSeen(loss[j][COUNTRY])

\* C9, amended: the rows of loss are in non-increasing order of summed loss
\* (nothing is promised about the order of countries of equal sums).
C9_NonIncreasing ==
  pc \in {"tab1", "tab2", "tab3", "done"} =>
    \A i \in DOMAIN loss : i < Len(loss) => loss[i][LOSS] >= loss[i + 1][LOSS]

\* Two countries of equal sums, and a third row: the country met first in
\* subset (USA) is listed after the one groupby emits first (India), which
\* is the order a stable sort leaves them in.
C9_Witness ==
  /\ pc = "tab1"
  /\ Len(subset) = 3
  /\ Len(loss) = 2
  /\ loss[1][LOSS] = 6 /\ loss[2][LOSS] = 6
  /\ loss[1][COUNTRY] = "India" /\ loss[2][COUNTRY] = "USA"
  /\ FirstSeen("USA") < FirstSeen("India")

\* ---------------------------------------------------------------------- C6
\* C6: with no country selected, or with a year range that holds no row's
\* Year, sidebar_filters returns an empty subset; on an empty subset each of
\* the four summaries is empty once its function has run; and the run never
\* ends in an exception.
C6_EmptySubset ==
  /\ (pc \in AfterFilter /\
        (countries = {} \/
           \A r \in Range(df) : ~(year_range[1] <= r[YEAR] /\ r[YEAR] <= year_range[2])))
       => subset = <<>>
  /\ (pc \in {"tab1", "tab2", "tab3", "done"} /\ subset = <<>>) => loss = <<>>
  /\ (pc \in {"tab2", "tab3", "done"} /\ subset = <<>>) => avg_atk = <<>>
  /\ (pc \in {"tab3", "done"} /\ subset = <<>>) => combo = <<>>
  /\ (pc = "done" /\ subset = <<>>) =>
        heat.index = <<>> /\ heat.columns = <<>> /\ heat.data = <<>>
  /\ pc # "raised"

\* A run has finished all four tabs on a subset emptied by a year range
\* between the years of the rows, with a country selected.
C6_Witness ==
  /\ pc = "done"
  /\ countries # {}
  /\ df # <<>>
  /\ \A r \in Range(df) : r[YEAR] < year_range[1] \/ r[YEAR] > year_range[2]
  /\ subset = <<>>
  /\ stages = {"load_data", "sidebar_filters", "plot_loss_by_country",
               "plot_avg_loss_by_attack", "plot_top_country_industry",
               "plot_resolution_heatmap"}
  /\ loss = <<>> /\ avg_atk = <<>> /\ combo = <<>> /\ heat = EmptyHeat

\* ---------------------------------------------------------------------- C4
\* The (Country, Target Industry) pairs of subset, and a pair's rows.
Pairs == {<<r[COUNTRY], r[INDUSTRY]>> : r \in Range(subset)}
RowsOfPair(p) ==
  {i \in DOMAIN subset : subset[i][COUNTRY] = p[1] /\ subset[i][INDUSTRY] = p[2]}

\* a/b >= c/d for the mean of a pair's rows, without dividing.
PairMeanGE(p, q) ==
  SumAt(subset, LOSS, RowsOfPair(p)) * Cardinality(RowsOfPair(q))
    >= SumAt(subset, LOSS, RowsOfPair(q)) * Cardinality(RowsOfPair(p))

ComboPair(i) == <<combo[i][COUNTRY], combo[i][INDUSTRY]>>
Returned == {ComboPair(i) : i \in DOMAIN combo}

\* C4: once plot_top_country_industry has run, combo has
\* min(10, number of pairs of subset) rows, never more than 10; each row is
\* a pair of subset, no pair twice, with the mean Financial Loss of the
\* pair's rows; the rows are in non-increasing order of mean; and the mean
\* of a returned pair is at least the mean of every pair not returned.
C4_TopTen ==
  pc \in {"tab3", "done"} =>
    /\ Len(combo) <= 10
    /\ Len(combo) = IF Cardinality(Pairs) < 10 THEN Cardinality(Pairs) ELSE 10
    /\ Returned \subseteq Pairs
    /\ Cardinality(Returned) = Len(combo)
    /\ \A i \in DOMAIN combo :
         /\ combo[i][LOSS].den > 0
         /\ combo[i][LOSS].num * Cardinality(RowsOfPair(ComboPair(i)))
              = SumAt(subset, LOSS, RowsOfPair(ComboPair(i))) * combo[i][LOSS].den
    /\ \A i \in DOMAIN combo : i < Len(combo) =>
         combo[i][LOSS].num * combo[i + 1][LOSS].den
           >= combo[i + 1][LOSS].num * combo[i][LOSS].den
    /\ \A p \in Returned : \A q \in Pairs \ Returned : PairMeanGE(p, q)

\* More than ten pairs, of which one has several rows, and a pair left out
\* whose mean equals that of the tenth pair returned.
C4_Witness ==
  /\ pc = "tab3"
  /\ Cardinality(Pairs) > 10
  /\ Len(combo) = 10
  /\ \E p \in Pairs : Cardinality(RowsOfPair(p)) > 1
  /\ \E q \in Pairs \ Returned : PairMeanGE(q, ComboPair(10))

\* ---------------------------------------------------------------------- C5
Vulns    == {r[VULN] : r \in Range(subset)}
Defenses == {r[DEFENSE] : r \in Range(subset)}
RowsOfCell(v, d) ==
  {i \in DOMAIN subset : subset[i][VULN] = v /\ subset[i][DEFENSE] = d}

\* C5: once plot_resolution_heatmap has run, heat has one row per distinct
\* Security Vulnerability Type of subset and one column per distinct Defense
\* Mechanism Used of subset; the cell (v, d) holds a value exactly when a
\* row of subset has vulnerability v and defense d, and then it is the mean
\* Incident Resolution Time of those rows; a cell no row fills is NaN, not 0.
C5_Heatmap ==
  pc = "done" =>
    /\ Range(heat.index) = Vulns /\ Len(heat.index) = Cardinality(Vulns)
    /\ Range(heat.columns) = Defenses /\ Len(heat.columns) = Cardinality(Defenses)
    /\ DOMAIN heat.data = DOMAIN heat.index
    /\ \A i \in DOMAIN heat.index :
         /\ DOMAIN heat.data[i] = DOMAIN heat.columns
         /\ \A j \in DOMAIN heat.columns :
              LET cell == heat.data[i][j]
                  rows == RowsOfCell(heat.index[i], heat.columns[j])
              IN  /\ (cell # NaN) <=> (rows # {})
                  /\ rows = {} => cell # [num |-> 0, den |-> 1]
                  /\ rows # {} =>
                       /\ cell.den > 0
                       /\ cell.num * Cardinality(rows)
                            = SumAt(subset, RESTIME, rows) * cell.den

\* A 2 x 2 matrix in which two pairs never occur together and one cell is
\* the mean (3) of two rows (2 and 4 hours).
C5_Witness ==
  /\ pc = "done"
  /\ Len(heat.index) = 2
  /\ Len(heat.columns) = 2
  /\ Cardinality({c \in (1..2) \X (1..2) : heat.data[c[1]][c[2]] = NaN}) = 2
  /\ \E c \in (1..2) \X (1..2) : heat.data[c[1]][c[2]] = [num |-> 3, den |-> 1]

\* ---------------------------------------------------------------------- C2
\* Before call i, a table was stored that is younger than the ttl when call
\* i is made (a table is stored when a request is answered "200 xlsx").
YoungerThanTTL(i) ==
  \E j \in 1..(i - 1) :
    calls[j].resp = "200 xlsx" /\ calls[i].at < calls[j].done_at + CACHE_TTL

\* C2: a load_data call made while a stored table is younger than the ttl
\* issues no request and returns the cached table; every other call issues
\* one request; so the requests issued are as many as the calls that found
\* no such table (one for two calls within a ttl window, a second one for a
\* call after it).
C2_CacheTTL ==
  /\ \A i \in DOMAIN calls :
       /\ YoungerThanTTL(i) => calls[i].reqs = 0 /\ calls[i].hit
       /\ ~YoungerThanTTL(i) => calls[i].reqs = 1 /\ ~calls[i].hit
  /\ requests = Cardinality({i \in DOMAIN calls : ~YoungerThanTTL(i)})
  /\ (pc = "filter" /\ calls # <<>> /\ YoungerThanTTL(Len(calls))) =>
        df = cache.value /\ df = ReadExcel(remote)

\* Three calls: a fetch; a call 3599 s after the table was stored, answered
\* from the cache; a call 3600 s after it was stored, which fetches again.
C2_Witness ==
  /\ Len(calls) = 3
  /\ calls[1].resp = "200 xlsx"
  /\ calls[2].hit /\ calls[2].at = calls[1].done_at + CACHE_TTL - 1
  /\ ~calls[3].hit /\ calls[3].at = calls[1].done_at + CACHE_TTL
  /\ requests = 2

\* ---------------------------------------------------------------------- C7
\* Call i fetched and the fetch failed.
FailedFetch(i) == calls[i].resp \in Responses \ {"200 xlsx"}

\* C7: a fetch that fails (connection error, 4xx/5xx status, a body that is
\* no spreadsheet) makes its call issue exactly one request and raise;
\* nothing is stored, so the next call issues a request again; and the run
\* ends there, with neither sidebar_filters nor a chart function entered.
C7_FailurePropagates ==
  /\ \A i \in DOMAIN calls : FailedFetch(i) =>
       /\ calls[i].reqs = 1
       /\ ~calls[i].ok
       /\ i < Len(calls) => calls[i + 1].reqs = 1 /\ ~calls[i + 1].hit
  /\ requests = Cardinality({i \in DOMAIN calls : ~calls[i].hit})
  /\ (Len(calls) = run /\ run > 0 /\ FailedFetch(run)) =>
       /\ pc = "raised"
       /\ stages = {"load_data"}
       /\ ~cache.present
       /\ subset = <<>> /\ loss = <<>> /\ avg_atk = <<>> /\ combo = <<>>
       /\ heat = EmptyHeat

\* Two failed fetches in a row, each with its own request, the second run
\* stopped in load_data.
C7_Witness ==
  /\ Len(calls) = 2
  /\ FailedFetch(1) /\ FailedFetch(2)
  /\ requests = 2
  /\ pc = "raised"
  /\ stages = {"load_data"}

\* ---------------------------------------------------------------------- C8
\* C8: in every run the subset that is charted is the rows of the loaded
\* table that pass the current year range and country selection, whatever
\* was selected in earlier runs; it holds only rows of the loaded table; and
\* the loaded table and the cached table stay the table that was read from
\* the sheet.
C8_SubsetOfLoadedTable ==
  /\ pc \in AfterFilter =>
       /\ Range(subset) = {r \in Range(df) : Selected(r)}
       /\ Cardinality(Range(subset)) = Len(subset)
  /\ pc \in {"filter"} \cup AfterFilter => df = ReadExcel(remote)
  /\ cache.present => cache.value = ReadExcel(remote)

\* A later run whose selection brings in a row the previous run left out
\* and leaves out a row the previous run charted.
C8_Witness ==
  /\ run >= 2
  /\ pc = "done"
  /\ \E r \in Range(subset) : r \notin Range(shown)
  /\ \E r \in Range(shown) : r \notin Range(subset)

\* --------------------------------------------------------------------- C10
\* C10: however the sessions' load_data calls interleave on a cold cache,
\* every session that gets a table gets the table of the sheet; the cache is
\* empty until the first write and afterwards holds exactly what the last
\* write stored, which is the table of the sheet; and no fetch is dropped:
\* every request issued is still in flight, has raised, or has been written.
C10_BenignRace ==
  /\ \A s \in Sessions : rpc[s] = "returned" => rgot[s] = ReadExcel(remote)
  /\ writes = <<>> => ~cache.present
  /\ writes # <<>> =>
       /\ cache.present
       /\ cache.value = writes[Len(writes)].value
       /\ cache.stored_at = writes[Len(writes)].at
       /\ cache.value = ReadExcel(remote)
  /\ requests =
       Cardinality({s \in Sessions : rpc[s] \in {"fetching", "storing", "raised"}})
         + Len(writes)

\* Two sessions both missed, both fetched and both wrote, the second write
\* later than the first; both have the table.
C10_Witness ==
  /\ Len(writes) = 2
  /\ writes[1].by # writes[2].by
  /\ writes[1].at < writes[2].at
  /\ requests = 2
  /\ \A s \in {writes[1].by, writes[2].by} : rpc[s] = "returned"

====
